---- MODULE Spec2Model ----
(***************************************************************************)
(* Pomocnik_jezykowy_app.py: the note store (the Qdrant collection "notes" *)
(* behind get_qdrant_client) and the Streamlit script runs that call it.   *)
(* Every browser session runs the script in its own thread; all sessions   *)
(* of the process share the one cached in-memory Qdrant client.            *)
(***************************************************************************)
EXTENDS Integers, Sequences, FiniteSets, TLC

(* ------------------------------ bounds -------------------------------- *)

\* Browser sessions (script threads) of the one Streamlit process.
NumSessions == 2

\* add_note_to_db calls started over the whole behaviour.
MaxAdds == 2

\* Notes the collection holds when a behaviour of SpecStore starts.
MaxStored == 20

(* ------------------------- program constants --------------------------- *)

EMBEDDING_DIM == 3072

QDRANT_COLLECTION_NAME == "notes"

\* limit=12 of the scroll in list_notes_from_db.
ScrollLimit == 12

\* limit=10 of the search in list_notes_from_db.
SearchLimit == 10

(* ------------------------------ domains -------------------------------- *)

Sessions == 1..NumSessions

\* Non-empty texts a user can type (or a model can return).
Texts == {"a", "b"}

\* What a text widget can hold.
Inputs == Texts \cup {""}

\* "note_text_corrected" not in st.session_state
Absent == "<absent>"

\* st.session_state.get("last_selected_note_idx") without the key: None.
NoIndex == -1

\* What the embedding API returns for a text: an opaque vector, the same
\* one for the same text.
EmbeddingOf(text) ==
    CASE text = "a" -> 1
      [] text = "b" -> 2
      [] OTHER      -> 3

\* Cosine similarity of two vectors, in hundredths.
Cosine(v, w) == IF v = w THEN 100 ELSE IF v + w = 3 THEN 40 ELSE 10

VARIABLES
    qdrant,               \* the st.cache_resource slot of get_qdrant_client
    env,                  \* whether .env holds OPENAI_API_KEY
    pc,                   \* where each session's script thread stands
    openai_api_key,       \* st.session_state["openai_api_key"]
    chat_active,          \* st.session_state.chat_active
    note_text,            \* st.session_state["note_text"]
    note_text_corrected,  \* st.session_state["note_text_corrected"]
    search_results,       \* st.session_state["search_results"]
    search_note_text,     \* st.session_state["search_note_text"]
    search_note_text_corrected, \* st.session_state["search_note_text_corrected"]
    last_selected_note_idx,     \* st.session_state["last_selected_note_idx"]
    chat_history,         \* st.session_state.chat_history
    chat_text_source,     \* st.session_state.chat_text_source
    prev_chat_text_source,      \* st.session_state["prev_chat_text_source"]
    clear_chat_input,     \* st.session_state["clear_chat_input"]
    chat_user_input,      \* st.session_state["chat_user_input"], the input widget
    arg,                  \* note_text / query of the call in progress
    points_count,         \* points_count.count of add_note_to_db
    vector,               \* the value of get_embedding in the call in progress
    exception,            \* the exception leaving the script, until the runner shows it
    fault,                \* history: the collaborator that failed in this run
    ensured,              \* history: assure_db_collection_exists returned in this run
    read_epoch,           \* history: Len(added) when points_count was read
    calls,                \* history: the collaborator calls of the store call of this run
    added,                \* history: the upserts that succeeded, in order
    search_edited,        \* history: the user changed the loaded selection (typing, "Popraw")
    chat_typed            \* history: the input read in this run was typed for this run

vars == <<qdrant, env, pc, openai_api_key, chat_active, note_text,
          note_text_corrected, search_results, arg, points_count, vector,
          exception, fault, ensured, read_epoch, calls, added,
          search_note_text, search_note_text_corrected, last_selected_note_idx,
          chat_history, chat_text_source, prev_chat_text_source,
          clear_chat_input, chat_user_input, search_edited, chat_typed>>

\* The keys of the search tab's selection.
search_state == <<search_note_text, search_note_text_corrected,
                  last_selected_note_idx, search_edited>>

\* The keys of the chat panel.
chat_state == <<chat_history, chat_text_source, prev_chat_text_source,
                clear_chat_input, chat_user_input, chat_typed>>

session_state == <<openai_api_key, chat_active, note_text, note_text_corrected,
                   search_results, search_state, chat_state>>

locals == <<arg, points_count, vector, read_epoch>>

(* --------------------------- the Qdrant client -------------------------- *)

NoPoints == [i \in {} |-> 0]

NoConfig == [size |-> 0, distance |-> "None"]

\* QdrantClient(path=":memory:"): a new client holds no collection.
NewQdrantClient ==
    [created |-> TRUE, collections |-> {}, vectors_config |-> NoConfig,
     points |-> NoPoints]

\* The cache slot before the first get_qdrant_client call.
EmptyCache ==
    [created |-> FALSE, collections |-> {}, vectors_config |-> NoConfig,
     points |-> NoPoints]

\* A get_qdrant_client that builds a new client on every call.
get_qdrant_client_uncached(cache) == NewQdrantClient

\* @st.cache_resource: the first call builds the client, every later call
\* (of any session) returns that same object.
get_qdrant_client(cache) ==
    IF cache.created THEN cache ELSE NewQdrantClient

collection_exists(client) == QDRANT_COLLECTION_NAME \in client.collections

\* create_collection(collection_name, vectors_config=VectorParams(size, distance))
create_collection(client) ==
    [client EXCEPT !.collections = @ \cup {QDRANT_COLLECTION_NAME},
                   !.vectors_config = [size |-> EMBEDDING_DIM, distance |-> "Cosine"]]

\* A count that lags one record behind.
count_inexact(client) ==
    IF DOMAIN client.points = {} THEN 0 ELSE Cardinality(DOMAIN client.points) - 1

\* count(collection_name, exact=True).count
count(client) == Cardinality(DOMAIN client.points)

\* A point built without its vector.
PointStruct_no_vector(id, vec, text) == [id |-> id, vector |-> 0, payload |-> [text |-> text]]

\* PointStruct(id=..., vector=..., payload={"text": note_text})
PointStruct(id, vec, text) == [id |-> id, vector |-> vec, payload |-> [text |-> text]]

\* An upsert that drops the collection's other points.
upsert_replacing(client, point) ==
    [client EXCEPT !.points =
        [i \in {point.id} |-> [vector |-> point.vector, payload |-> point.payload]]]

\* An upsert that keeps the point already stored under the id.
upsert_keeping(client, point) ==
    [client EXCEPT !.points =
        [i \in DOMAIN @ \cup {point.id} |->
            IF i \in DOMAIN @ THEN @[i]
            ELSE [vector |-> point.vector, payload |-> point.payload]]]

\* upsert(collection_name, points=[point]): insert, or overwrite the point
\* stored under the same id.
upsert(client, point) ==
    [client EXCEPT !.points =
        [i \in DOMAIN @ \cup {point.id} |->
            IF i = point.id
            THEN [vector |-> point.vector, payload |-> point.payload]
            ELSE @[i]]]

\* An id that ignores the count.
point_id_fixed(n) == 1

\* An id without the "+ 1".
point_id_unshifted(n) == n

\* id=points_count.count + 1
point_id(n) == n + 1

\* The ids of the collection, ascending: the order of the local scroll.
RECURSIVE ById(_)
ById(ids) ==
    IF ids = {} THEN <<>>
    ELSE LET lo == CHOOSE i \in ids : \A j \in ids : i <= j
         IN  <<lo>> \o ById(ids \ {lo})

\* The ids ranked by descending similarity to query_vector (equal scores by
\* ascending id).
RECURSIVE ByScore(_, _, _)
ByScore(client, ids, query_vector) ==
    IF ids = {} THEN <<>>
    ELSE LET best == CHOOSE i \in ids : \A j \in ids :
                        \/ Cosine(client.points[i].vector, query_vector)
                             > Cosine(client.points[j].vector, query_vector)
                        \/ /\ Cosine(client.points[i].vector, query_vector)
                                = Cosine(client.points[j].vector, query_vector)
                           /\ i <= j
         IN  <<best>> \o ByScore(client, ids \ {best}, query_vector)

\* A client that ignores limit.
Head_unlimited(s, limit) == s

\* The first `limit` items of an answer.
Head_(s, limit) == SubSeq(s, 1, IF Len(s) < limit THEN Len(s) ELSE limit)

\* A scroll that stops one record early.
scroll_one_short(client, limit) ==
    LET ids == Head_(ById(DOMAIN client.points), limit - 1)
    IN  [k \in 1..Len(ids) |-> [id |-> ids[k], payload |-> client.points[ids[k]].payload]]

\* scroll(collection_name, limit)[0]: the first `limit` records.
scroll(client, limit) ==
    LET ids == Head_(ById(DOMAIN client.points), limit)
    IN  [k \in 1..Len(ids) |-> [id |-> ids[k], payload |-> client.points[ids[k]].payload]]

\* A search that answers an empty collection with a placeholder record.
search_placeholder(client, query_vector, limit) ==
    LET ids == Head_(ByScore(client, DOMAIN client.points, query_vector), limit)
    IN  IF ids = <<>>
        THEN <<[id |-> 0, payload |-> [text |-> ""], score |-> 0]>>
        ELSE [k \in 1..Len(ids) |->
                [id |-> ids[k], payload |-> client.points[ids[k]].payload,
                 score |-> Cosine(client.points[ids[k]].vector, query_vector)]]

\* search(collection_name, query_vector, limit): the `limit` nearest records
\* with their scores, best first.
search(client, query_vector, limit) ==
    LET ids == Head_(ByScore(client, DOMAIN client.points, query_vector), limit)
    IN  [k \in 1..Len(ids) |->
            [id |-> ids[k], payload |-> client.points[ids[k]].payload,
             score |-> Cosine(client.points[ids[k]].vector, query_vector)]]

\* "score": None
NoScore == -1

(* ------------------------------- Init ---------------------------------- *)

Init ==
    /\ qdrant = EmptyCache
    /\ env \in BOOLEAN
    /\ pc = [p \in Sessions |-> "idle"]
    /\ openai_api_key = [p \in Sessions |-> ""]
    /\ chat_active = [p \in Sessions |-> FALSE]
    /\ note_text = [p \in Sessions |-> ""]
    /\ note_text_corrected = [p \in Sessions |-> Absent]
    /\ search_results = [p \in Sessions |-> <<>>]
    /\ arg = [p \in Sessions |-> ""]
    /\ points_count = [p \in Sessions |-> 0]
    /\ vector = [p \in Sessions |-> 0]
    /\ exception = [p \in Sessions |-> "none"]
    /\ fault = [p \in Sessions |-> "none"]
    /\ ensured = [p \in Sessions |-> FALSE]
    /\ read_epoch = [p \in Sessions |-> 0]
    /\ calls = [p \in Sessions |-> <<>>]
    /\ added = <<>>
    /\ search_note_text = [p \in Sessions |-> Absent]
    /\ search_note_text_corrected = [p \in Sessions |-> Absent]
    /\ last_selected_note_idx = [p \in Sessions |-> NoIndex]
    /\ chat_history = [p \in Sessions |-> <<>>]
    /\ chat_text_source = [p \in Sessions |-> "note_text"]
    /\ prev_chat_text_source = [p \in Sessions |-> Absent]
    /\ clear_chat_input = [p \in Sessions |-> FALSE]
    /\ chat_user_input = [p \in Sessions |-> ""]
    /\ search_edited = [p \in Sessions |-> FALSE]
    /\ chat_typed = [p \in Sessions |-> FALSE]

(* ------------------------- one script run ------------------------------ *)

\* One call of a collaborator: the function, its text argument, its limit.
Call(fn, text, limit) == [fn |-> fn, text |-> text, limit |-> limit]

\* The call is recorded when it is made, whether it returns or raises.
Calls(p, call) == calls' = [calls EXCEPT ![p] = Append(@, call)]

\* The locals of a function are gone when it returns or raises.
Return(p) ==
    /\ arg' = [arg EXCEPT ![p] = ""]
    /\ points_count' = [points_count EXCEPT ![p] = 0]
    /\ vector' = [vector EXCEPT ![p] = 0]
    /\ read_epoch' = [read_epoch EXCEPT ![p] = 0]

\* An exception nobody catches leaves the function and the script.
Raise(p, what, who) ==
    /\ pc' = [pc EXCEPT ![p] = "raised"]
    /\ exception' = [exception EXCEPT ![p] = what]
    /\ fault' = [fault EXCEPT ![p] = who]
    /\ Return(p)

NoRaise == UNCHANGED <<exception, fault>>

\* add_note_to_db calls that are running.
Adding == {q \in Sessions : pc[q] \in {"count", "embed", "upsert"}}

\* A widget interaction starts a run of the script.  A click on the sidebar
\* button runs its on_click callback toggle_chat first; the button exists
\* only once a run got past the key gate.
RunStart(p, clicks) ==
    /\ pc[p] = "idle"
    /\ pc' = [pc EXCEPT ![p] = "gate"]
    /\ \E click \in clicks :
          /\ click => openai_api_key[p] # ""
          /\ chat_active' = [chat_active EXCEPT ![p] = IF click THEN ~@ ELSE @]
    /\ UNCHANGED <<qdrant, env, openai_api_key, note_text, note_text_corrected,
                   search_results, search_state, chat_state, locals,
                   exception, fault, ensured, calls, added>>

\* The run is over: the script reached its end, or st.stop(), or an
\* exception that Streamlit shows in the page; the session waits for the
\* next interaction.
EndRun(p) ==
    /\ pc' = [pc EXCEPT ![p] = "idle"]
    /\ ensured' = [ensured EXCEPT ![p] = FALSE]
    /\ calls' = [calls EXCEPT ![p] = <<>>]

\* An exception nobody caught ends the run.
RunAbort(p) ==
    /\ pc[p] = "raised"
    /\ EndRun(p)
    /\ exception' = [exception EXCEPT ![p] = "none"]
    /\ fault' = [fault EXCEPT ![p] = "none"]
    /\ UNCHANGED <<qdrant, env, session_state, locals, added>>

\* A key gate without its st.stop(): the run goes on without a key.
KeyGateNoStop(p) ==
    /\ pc[p] = "gate"
    /\ IF openai_api_key[p] # ""
       THEN /\ pc' = [pc EXCEPT ![p] = "ensure"]
            /\ UNCHANGED openai_api_key
       ELSE IF env
       THEN /\ openai_api_key' = [openai_api_key EXCEPT ![p] = "sk"]
            /\ pc' = [pc EXCEPT ![p] = "ensure"]
       ELSE \E typed \in {"", "sk"} :
            /\ openai_api_key' = [openai_api_key EXCEPT ![p] = typed]
            /\ pc' = [pc EXCEPT ![p] = IF typed # "" THEN "gate" ELSE "ensure"]
    /\ UNCHANGED <<qdrant, env, chat_active, note_text, note_text_corrected,
                   search_results, search_state, chat_state, locals,
                   exception, fault, ensured, calls, added>>

\* OpenAi API key protection: the key comes from .env or from the text
\* input (a typed key restarts the script with st.rerun()); a run that
\* still has no key ends in st.stop().
KeyGate(p) ==
    /\ pc[p] = "gate"
    /\ IF openai_api_key[p] # ""
       THEN /\ pc' = [pc EXCEPT ![p] = "ensure"]
            /\ UNCHANGED openai_api_key
       ELSE IF env
       THEN /\ openai_api_key' = [openai_api_key EXCEPT ![p] = "sk"]
            /\ pc' = [pc EXCEPT ![p] = "ensure"]
       ELSE \E typed \in {"", "sk"} :
            /\ openai_api_key' = [openai_api_key EXCEPT ![p] = typed]
            /\ pc' = [pc EXCEPT ![p] = IF typed # "" THEN "gate" ELSE "stopped"]
    /\ UNCHANGED <<qdrant, env, chat_active, note_text, note_text_corrected,
                   search_results, search_state, chat_state, locals,
                   exception, fault, ensured, calls, added>>

\* st.stop(): the run ends where it stands.
RunStop(p) ==
    /\ pc[p] = "stopped"
    /\ EndRun(p)
    /\ UNCHANGED <<qdrant, env, session_state, locals, exception, fault, added>>

(* -------------------- assure_db_collection_exists ----------------------- *)

\* An assure_db_collection_exists that creates without looking.
EnsureCheckAlwaysCreate(p) ==
    /\ pc[p] = "ensure"
    /\ qdrant' = get_qdrant_client(qdrant)
    /\ pc' = [pc EXCEPT ![p] = "create"]
    /\ UNCHANGED <<env, session_state, locals, exception, fault, ensured, calls,
                   added>>

\* An assure_db_collection_exists that returns without looking.
EnsureCheckSkipped(p) ==
    /\ pc[p] = "ensure"
    /\ qdrant' = get_qdrant_client(qdrant)
    /\ pc' = [pc EXCEPT ![p] = "add_tab"]
    /\ ensured' = [ensured EXCEPT ![p] = TRUE]
    /\ UNCHANGED <<env, session_state, locals, exception, fault, calls, added>>

\* An assure_db_collection_exists whose check and create are one step.
EnsureCheckAtomic(p) ==
    /\ pc[p] = "ensure"
    /\ LET qdrant_client == get_qdrant_client(qdrant)
       IN  qdrant' = IF collection_exists(qdrant_client) THEN qdrant_client
                     ELSE create_collection(qdrant_client)
    /\ pc' = [pc EXCEPT ![p] = "add_tab"]
    /\ ensured' = [ensured EXCEPT ![p] = TRUE]
    /\ UNCHANGED <<env, session_state, locals, exception, fault, calls, added>>

\* qdrant_client = get_qdrant_client()
\* if not qdrant_client.collection_exists(QDRANT_COLLECTION_NAME): ... else: print
EnsureCheck(p) ==
    /\ pc[p] = "ensure"
    /\ LET qdrant_client == get_qdrant_client(qdrant)
       IN  /\ qdrant' = qdrant_client
           /\ IF collection_exists(qdrant_client)
              THEN /\ pc' = [pc EXCEPT ![p] = "add_tab"]
                   /\ ensured' = [ensured EXCEPT ![p] = TRUE]
              ELSE /\ pc' = [pc EXCEPT ![p] = "create"]
                   /\ UNCHANGED ensured
    /\ UNCHANGED <<env, session_state, locals, exception, fault, calls, added>>

\* qdrant_client.create_collection(...): the local client refuses a name it
\* already holds (ValueError) and leaves the collection as it is.
EnsureCreate(p) ==
    /\ pc[p] = "create"
    /\ IF collection_exists(qdrant)
       THEN /\ Raise(p, "ValueError", "create_collection")
            /\ UNCHANGED <<qdrant, ensured>>
       ELSE /\ qdrant' = create_collection(qdrant)
            /\ pc' = [pc EXCEPT ![p] = "add_tab"]
            /\ ensured' = [ensured EXCEPT ![p] = TRUE]
            /\ UNCHANGED <<locals, exception, fault>>
    /\ UNCHANGED <<env, session_state, calls, added>>

(* ------------------------------ add_tab --------------------------------- *)

\* A save button that is shown whatever the text.
save_shown_always(text) == TRUE

\* if st.session_state.get("note_text", "") and st.button(...): a save
\* button exists only for a text that is set and not empty.
save_shown(text) == text \notin {Absent, ""}

\* The add tab of one run: the text area refreshes note_text; a click on
\* "Popraw" stores the model's answer as note_text_corrected (the call may
\* raise); the second text area refreshes note_text_corrected when it is
\* set; one of the two save buttons, shown only for a non-empty text, calls
\* add_note_to_db; a click in a translation tab calls the model too.
AddTab(p, triggers) ==
    /\ pc[p] = "add_tab"
    /\ \E typed \in Inputs, trigger \in triggers :
          /\ note_text' = [note_text EXCEPT ![p] = typed]
          /\ \/ /\ trigger = "correct"
                /\ \/ /\ Raise(p, "OpenAIError", "chat")
                      /\ UNCHANGED note_text_corrected
                   \/ /\ \E answer \in Inputs :
                            note_text_corrected' =
                                [note_text_corrected EXCEPT ![p] = answer]
                      /\ pc' = [pc EXCEPT ![p] = "search_tab"]
                      /\ NoRaise
                      /\ UNCHANGED locals
             \/ /\ trigger = "translate"
                /\ \/ Raise(p, "OpenAIError", "chat")
                   \/ /\ pc' = [pc EXCEPT ![p] = "search_tab"]
                      /\ NoRaise
                      /\ UNCHANGED locals
                /\ UNCHANGED note_text_corrected
             \/ /\ trigger \in {"none", "save1", "save2"}
                /\ \E edited \in Inputs :
                      note_text_corrected' =
                          [note_text_corrected EXCEPT ![p] =
                              IF @ = Absent THEN Absent ELSE edited]
                /\ CASE trigger = "save1" ->
                          /\ save_shown(typed)
                          /\ Len(added) + Cardinality(Adding) < MaxAdds
                          /\ arg' = [arg EXCEPT ![p] = typed]
                          /\ pc' = [pc EXCEPT ![p] = "count"]
                     [] trigger = "save2" ->
                          /\ save_shown(note_text_corrected'[p])
                          /\ Len(added) + Cardinality(Adding) < MaxAdds
                          /\ arg' = [arg EXCEPT ![p] = note_text_corrected'[p]]
                          /\ pc' = [pc EXCEPT ![p] = "count"]
                     [] OTHER ->
                          /\ pc' = [pc EXCEPT ![p] = "search_tab"]
                          /\ UNCHANGED arg
                /\ NoRaise
                /\ UNCHANGED <<points_count, vector, read_epoch>>
    /\ UNCHANGED <<qdrant, env, openai_api_key, chat_active, search_results,
                   search_state, chat_state, ensured, calls, added>>

(* --------------------------- add_note_to_db ----------------------------- *)

\* points_count = qdrant_client.count(collection_name, exact=True)
AddCount(p) ==
    /\ pc[p] = "count"
    /\ Calls(p, Call("count", "", 0))
    /\ LET qdrant_client == get_qdrant_client(qdrant)
       IN  /\ qdrant' = qdrant_client
           /\ IF collection_exists(qdrant_client)
              THEN /\ points_count' = [points_count EXCEPT ![p] = count(qdrant_client)]
                   /\ read_epoch' = [read_epoch EXCEPT ![p] = Len(added)]
                   /\ pc' = [pc EXCEPT ![p] = "embed"]
                   /\ NoRaise
                   /\ UNCHANGED <<arg, vector>>
              ELSE Raise(p, "ValueError", "count")
    /\ UNCHANGED <<env, session_state, ensured, added>>

\* An add_note_to_db that swallows the provider's error and stores the note
\* without a vector.
AddEmbedSwallow(p) ==
    /\ pc[p] = "embed"
    /\ \/ /\ fault' = [fault EXCEPT ![p] = "add_embedding"]
          /\ vector' = [vector EXCEPT ![p] = 0]
       \/ /\ vector' = [vector EXCEPT ![p] = EmbeddingOf(arg[p])]
          /\ UNCHANGED fault
    /\ pc' = [pc EXCEPT ![p] = "upsert"]
    /\ Calls(p, Call("get_embedding", arg[p], 0))
    /\ UNCHANGED <<qdrant, env, session_state, arg, points_count, read_epoch,
                   exception, ensured, added>>

\* vector=get_embedding(text=note_text): the provider answers or raises.
AddEmbed(p) ==
    /\ pc[p] = "embed"
    /\ Calls(p, Call("get_embedding", arg[p], 0))
    /\ \/ Raise(p, "OpenAIError", "add_embedding")
       \/ /\ vector' = [vector EXCEPT ![p] = EmbeddingOf(arg[p])]
          /\ pc' = [pc EXCEPT ![p] = "upsert"]
          /\ NoRaise
          /\ UNCHANGED <<arg, points_count, read_epoch>>
    /\ UNCHANGED <<qdrant, env, session_state, ensured, added>>

\* qdrant_client.upsert(points=[PointStruct(id, vector, payload)]): the
\* index stores the point, or raises and stores nothing.  add_note_to_db
\* returns and the handler shows its toast.
AddUpsert(p) ==
    /\ pc[p] = "upsert"
    /\ Calls(p, Call("upsert", arg[p], 0))
    /\ \/ /\ Raise(p, "UpsertError", "upsert")
          /\ UNCHANGED <<qdrant, added>>
       \/ /\ LET point == PointStruct(point_id(points_count[p]), vector[p], arg[p])
             IN  /\ qdrant' = upsert(qdrant, point)
                 /\ added' = Append(added, [id |-> point.id, text |-> arg[p]])
          /\ pc' = [pc EXCEPT ![p] = "search_tab"]
          /\ Return(p)
          /\ NoRaise
    /\ UNCHANGED <<env, session_state, ensured>>

(* ----------------------------- search_tab ------------------------------- *)

\* query = st.text_input(...); a click on "Szukaj" calls list_notes_from_db,
\* otherwise the run shows the stored search_results.
SearchTab(p, queries) ==
    /\ pc[p] = "search_tab"
    /\ \/ /\ \E query \in queries : arg' = [arg EXCEPT ![p] = query]
          /\ pc' = [pc EXCEPT ![p] = "list"]
       \/ /\ pc' = [pc EXCEPT ![p] = "show"]
          /\ UNCHANGED arg
    /\ calls' = [calls EXCEPT ![p] = <<>>]
    /\ UNCHANGED <<qdrant, env, session_state, points_count, vector, read_epoch,
                   exception, fault, ensured, added>>

\* The user left the widget as it was.
Kept == "<kept>"

\* The end of col_main: with the chat panel open the script goes on to
\* col_chat, otherwise it has reached its end.
AfterMain(p) ==
    IF chat_active[p]
    THEN /\ pc' = [pc EXCEPT ![p] = "chat"]
         /\ UNCHANGED <<ensured, calls>>
    ELSE EndRun(p)

\* The search tab below the search button.  notes is the list just stored or
\* the one kept in search_results; if notes: the radio answers an index of
\* notes (the first one until the user picks another).  For a selection the
\* text of the selected note is loaded into search_note_text, and the second
\* version emptied, only if search_note_text is not set yet or the index
\* differs from last_selected_note_idx; then the text area returns the text
\* it shows, or what the user typed over it; a click on "Popraw" stores the
\* model's answer as search_note_text_corrected (the call may raise).
ShowResults(p, picks, edits, corrections) ==
    /\ pc[p] = "show"
    /\ LET notes == search_results[p]
       IN  IF notes = <<>>
           THEN /\ AfterMain(p)
                /\ UNCHANGED <<search_state, locals>>
                /\ NoRaise
           ELSE \E selected_note_idx \in picks \cap (0..(Len(notes) - 1)),
                   typed \in edits \cup {Kept},
                   answer \in corrections \cup {Kept} :
                LET load == \/ search_note_text[p] = Absent
                            \/ last_selected_note_idx[p] # selected_note_idx
                    text == IF load THEN notes[selected_note_idx + 1].text
                            ELSE search_note_text[p]
                    corrected == IF load THEN "" ELSE search_note_text_corrected[p]
                IN  /\ search_note_text' = [search_note_text EXCEPT ![p] =
                           IF typed = Kept THEN text ELSE typed]
                    /\ last_selected_note_idx' =
                           [last_selected_note_idx EXCEPT ![p] = selected_note_idx]
                    /\ search_edited' = [search_edited EXCEPT ![p] =
                           IF typed # Kept \/ answer # Kept THEN TRUE
                           ELSE IF load THEN FALSE ELSE @]
                    /\ IF answer = Kept
                       THEN /\ search_note_text_corrected' =
                                   [search_note_text_corrected EXCEPT ![p] = corrected]
                            /\ AfterMain(p)
                            /\ NoRaise
                            /\ UNCHANGED locals
                       ELSE \/ /\ search_note_text_corrected' =
                                      [search_note_text_corrected EXCEPT ![p] = answer]
                               /\ AfterMain(p)
                               /\ NoRaise
                               /\ UNCHANGED locals
                            \/ /\ search_note_text_corrected' =
                                      [search_note_text_corrected EXCEPT ![p] = corrected]
                               /\ Raise(p, "OpenAIError", "chat")
                               /\ UNCHANGED <<ensured, calls>>
    /\ UNCHANGED <<qdrant, env, openai_api_key, chat_active, note_text,
                   note_text_corrected, search_results, chat_state, added>>

(* ---------------------------- the chat panel ---------------------------- *)

\* text_sources: the labels of the selectbox and the session keys they stand
\* for (the first two of the twelve; the others differ in the key only).
text_sources ==
    ("Pierwsza wersja notatki" :> "note_text") @@
    ("Druga wersja notatki (poprawiona)" :> "note_text_corrected")

\* st.session_state.get(text_key, ""): a key that is not set reads as "".
session_get(p, text_key) ==
    LET value == IF text_key = "note_text" THEN note_text[p]
                 ELSE note_text_corrected[p]
    IN  IF value = Absent THEN "" ELSE value

\* {"role": "system", "content": f"Jestes ekspertem ...:\n\n{text_for_chat}"}
SystemMessage(text_for_chat) ==
    [role |-> "system",
     content |-> "Jestes ekspertem jezykowym. Odpowiadasz na pytania dotyczace wybranego tekstu:\n\n"
                    \o text_for_chat]

\* {"role": "user", "content": user_input}
UserMessage(user_input) == [role |-> "user", content |-> user_input]

\* {"role": "assistant", "content": answer}
AssistantMessage(answer) == [role |-> "assistant", content |-> answer]

\* What the user asks and what the model answers.
Questions == {"q"}
Answers == {"r"}

\* The longest conversation followed: its number of questions.
MaxQuestions == 2

Asked(history) == Cardinality({k \in 1..Len(history) : history[k].role = "user"})

\* A source change that keeps the conversation.
reset_keeping(history, text_for_chat) == history

\* chat_history = []; if text_for_chat: chat_history.append(system message)
reset(history, text_for_chat) ==
    IF text_for_chat # "" THEN <<SystemMessage(text_for_chat)>> ELSE <<>>

\* The top of col_chat.  The selectbox of the sidebar gives chat_text_source;
\* an empty history gets the system message of a non-empty text; the first
\* run records prev_chat_text_source; a source other than the recorded one
\* resets the history and is recorded.
ChatSetup(p, sources) ==
    /\ pc[p] = "chat"
    /\ \E source \in sources :
          LET text_for_chat == session_get(p, text_sources[source])
              first == IF chat_history[p] = <<>> /\ text_for_chat # ""
                       THEN <<SystemMessage(text_for_chat)>>
                       ELSE chat_history[p]
              prev == IF prev_chat_text_source[p] = Absent THEN source
                      ELSE prev_chat_text_source[p]
          IN  /\ chat_text_source' = [chat_text_source EXCEPT ![p] = source]
              /\ chat_history' = [chat_history EXCEPT ![p] =
                     IF prev # source THEN reset(first, text_for_chat) ELSE first]
              /\ prev_chat_text_source' = [prev_chat_text_source EXCEPT ![p] = source]
    /\ pc' = [pc EXCEPT ![p] = "chat_input"]
    /\ UNCHANGED <<qdrant, env, openai_api_key, chat_active, note_text,
                   note_text_corrected, search_results, search_state,
                   clear_chat_input, chat_user_input, chat_typed, locals,
                   exception, fault, ensured, calls, added>>

\* A system message that is always inserted, never rewritten.
with_system_inserted(history, text_for_chat) ==
    <<SystemMessage(text_for_chat)>> \o history

\* if chat_history and chat_history[0]["role"] == "system": chat_history[0] =
\* system message; else: chat_history.insert(0, system message)
with_system(history, text_for_chat) ==
    IF history # <<>> /\ history[1].role = "system"
    THEN [history EXCEPT ![1] = SystemMessage(text_for_chat)]
    ELSE <<SystemMessage(text_for_chat)>> \o history

\* An input field that is never cleared.
cleared_input_never(flag, value) == value

\* if st.session_state.get("clear_chat_input"): chat_user_input = "", set
\* before the widget is created, so the widget shows and returns "".
cleared_input(flag, value) == IF flag THEN "" ELSE value

\* The input of col_chat.  The field holds what the user typed for this run,
\* or what it held before; clear_chat_input empties it first and is reset.
\* A non-empty input rewrites (or inserts) the system message at the head of
\* the history from the text of the selected source and appends the user's
\* message; the call of the model follows.
ChatInput(p, inputs) ==
    /\ pc[p] = "chat_input"
    /\ \E typed \in inputs \cup {Kept} :
          LET held == IF typed = Kept THEN chat_user_input[p] ELSE typed
              user_input == cleared_input(clear_chat_input[p], held)
              text_for_chat == session_get(p, text_sources[chat_text_source[p]])
              history == chat_history[p]
              headed == with_system(history, text_for_chat)
          IN  /\ chat_user_input' = [chat_user_input EXCEPT ![p] = user_input]
              /\ clear_chat_input' = [clear_chat_input EXCEPT ![p] = FALSE]
              /\ chat_typed' = [chat_typed EXCEPT ![p] = typed # Kept]
              /\ IF user_input # ""
                 THEN /\ Asked(history) < MaxQuestions
                      /\ chat_history' = [chat_history EXCEPT ![p] =
                             Append(headed, UserMessage(user_input))]
                      /\ pc' = [pc EXCEPT ![p] = "chat_call"]
                 ELSE /\ UNCHANGED chat_history
                      /\ pc' = [pc EXCEPT ![p] = "chat_end"]
    /\ UNCHANGED <<qdrant, env, openai_api_key, chat_active, note_text,
                   note_text_corrected, search_results, search_state,
                   chat_text_source, prev_chat_text_source, locals, exception,
                   fault, ensured, calls, added>>

\* answer = f"Blad komunikacji z OpenAI: {e}"
ErrorAnswer(e) == "Blad komunikacji z OpenAI: " \o e

\* A call of the model whose exception leaves the script.
ChatCallUncaught(p) ==
    /\ pc[p] = "chat_call"
    /\ Calls(p, Call("chat.completions.create", chat_user_input[p], 1024))
    /\ \/ /\ \E answer \in Answers :
                chat_history' = [chat_history EXCEPT ![p] =
                    Append(@, AssistantMessage(answer))]
          /\ clear_chat_input' = [clear_chat_input EXCEPT ![p] = TRUE]
          /\ pc' = [pc EXCEPT ![p] = "chat_end"]
          /\ NoRaise
          /\ UNCHANGED locals
       \/ /\ Raise(p, "OpenAIError", "chat")
          /\ UNCHANGED <<chat_history, clear_chat_input>>
    /\ UNCHANGED <<qdrant, env, openai_api_key, chat_active, note_text,
                   note_text_corrected, search_results, search_state,
                   chat_text_source, prev_chat_text_source, chat_user_input,
                   chat_typed, ensured, added>>

\* try: get_openai_client().chat.completions.create(messages=chat_history)
\* and the answer is appended; except Exception as e: the error text is
\* appended as the assistant's message.  Then clear_chat_input = True.
ChatCall(p) ==
    /\ pc[p] = "chat_call"
    /\ Calls(p, Call("chat.completions.create", chat_user_input[p], 1024))
    /\ \E answer \in Answers \cup {ErrorAnswer("OpenAIError")} :
          chat_history' = [chat_history EXCEPT ![p] =
              Append(@, AssistantMessage(answer))]
    /\ clear_chat_input' = [clear_chat_input EXCEPT ![p] = TRUE]
    /\ pc' = [pc EXCEPT ![p] = "chat_end"]
    /\ UNCHANGED <<qdrant, env, openai_api_key, chat_active, note_text,
                   note_text_corrected, search_results, search_state,
                   chat_text_source, prev_chat_text_source, chat_user_input,
                   chat_typed, locals, exception, fault, ensured, added>>

\* The history is rendered.  if st.button("Wyczysc historie rozmowy"): the
\* history is emptied, clear_chat_input set, and st.rerun() starts the
\* script again; the click is the interaction of its run, so nothing was
\* typed for it.  Without the click the script has reached its end.
ChatEnd(p, clicks) ==
    /\ pc[p] = "chat_end"
    /\ \E click \in clicks :
          IF click
          THEN /\ ~chat_typed[p]
               /\ chat_history' = [chat_history EXCEPT ![p] = <<>>]
               /\ clear_chat_input' = [clear_chat_input EXCEPT ![p] = TRUE]
               /\ pc' = [pc EXCEPT ![p] = "gate"]
               /\ ensured' = [ensured EXCEPT ![p] = FALSE]
               /\ calls' = [calls EXCEPT ![p] = <<>>]
          ELSE /\ EndRun(p)
               /\ UNCHANGED <<chat_history, clear_chat_input>>
    /\ UNCHANGED <<qdrant, env, openai_api_key, chat_active, note_text,
                   note_text_corrected, search_results, search_state,
                   chat_text_source, prev_chat_text_source, chat_user_input,
                   chat_typed, locals, exception, fault, added>>

(* ------------------------- list_notes_from_db --------------------------- *)

\* query=None, the default of the parameter.
None == "<None>"

\* A test that sends only the missing query to the browse-all path.
not_query_is_None(query) == query = None

\* if not query: None and the empty string are falsy.
not_query(query) == query \in {None, ""}

\* A loop that appends the notes last to first.
Result_reversed(notes, scored) ==
    [k \in 1..Len(notes) |->
        [text |-> notes[Len(notes) + 1 - k].payload.text,
         score |-> IF scored THEN notes[Len(notes) + 1 - k].score ELSE NoScore]]

\* A loop that writes "score": None in both branches.
Result_unscored(notes, scored) ==
    [k \in 1..Len(notes) |-> [text |-> notes[k].payload.text, score |-> NoScore]]

\* result.append({"text": note.payload["text"], "score": ...})
Result(notes, scored) ==
    [k \in 1..Len(notes) |->
        [text |-> notes[k].payload.text,
         score |-> IF scored THEN notes[k].score ELSE NoScore]]

\* if not query: scroll(limit=12), every item with score None; the scroll
\* answers or raises; the handler stores the result as search_results.
ListScroll(p) ==
    /\ pc[p] = "list"
    /\ not_query(arg[p])
    /\ Calls(p, Call("scroll", "", ScrollLimit))
    /\ LET qdrant_client == get_qdrant_client(qdrant)
       IN  /\ qdrant' = qdrant_client
           /\ IF collection_exists(qdrant_client)
              THEN \/ /\ search_results' = [search_results EXCEPT ![p] =
                             Result(scroll(qdrant_client, ScrollLimit), FALSE)]
                      /\ pc' = [pc EXCEPT ![p] = "show"]
                      /\ Return(p)
                      /\ NoRaise
                   \/ /\ Raise(p, "ScrollError", "scroll_query")
                      /\ UNCHANGED search_results
              ELSE /\ Raise(p, "ValueError", "scroll")
                   /\ UNCHANGED search_results
    /\ UNCHANGED <<env, openai_api_key, chat_active, note_text, note_text_corrected,
                   search_state, chat_state, ensured, added>>

\* A list_notes_from_db that swallows the provider's error and searches
\* with an empty vector.
ListEmbedSwallow(p) ==
    /\ pc[p] = "list"
    /\ ~not_query(arg[p])
    /\ Calls(p, Call("get_embedding", arg[p], 0))
    /\ qdrant' = get_qdrant_client(qdrant)
    /\ \/ /\ fault' = [fault EXCEPT ![p] = "list_embedding"]
          /\ vector' = [vector EXCEPT ![p] = 0]
       \/ /\ vector' = [vector EXCEPT ![p] = EmbeddingOf(arg[p])]
          /\ UNCHANGED fault
    /\ pc' = [pc EXCEPT ![p] = "list_search"]
    /\ UNCHANGED <<env, session_state, arg, points_count, read_epoch, exception,
                   ensured, added>>

\* else: query_vector=get_embedding(text=query): the provider answers or raises.
ListEmbed(p) ==
    /\ pc[p] = "list"
    /\ ~not_query(arg[p])
    /\ Calls(p, Call("get_embedding", arg[p], 0))
    /\ qdrant' = get_qdrant_client(qdrant)
    /\ \/ Raise(p, "OpenAIError", "list_embedding")
       \/ /\ vector' = [vector EXCEPT ![p] = EmbeddingOf(arg[p])]
          /\ pc' = [pc EXCEPT ![p] = "list_search"]
          /\ NoRaise
          /\ UNCHANGED <<arg, points_count, read_epoch>>
    /\ UNCHANGED <<env, session_state, ensured, added>>

\* notes = qdrant_client.search(query_vector, limit=10), every item with its
\* score; the search answers or raises; the handler stores the result as
\* search_results.
ListSearch(p) ==
    /\ pc[p] = "list_search"
    /\ Calls(p, Call("search", "", SearchLimit))
    /\ IF collection_exists(qdrant)
       THEN \/ /\ search_results' = [search_results EXCEPT ![p] =
                      Result(search(qdrant, vector[p], SearchLimit), TRUE)]
               /\ pc' = [pc EXCEPT ![p] = "show"]
               /\ Return(p)
               /\ NoRaise
            \/ /\ Raise(p, "SearchError", "search_query")
               /\ UNCHANGED search_results
       ELSE /\ Raise(p, "ValueError", "search")
            /\ UNCHANGED search_results
    /\ UNCHANGED <<qdrant, env, openai_api_key, chat_active, note_text,
                   note_text_corrected, search_state, chat_state, ensured, added>>

(* --------------------------- specifications ----------------------------- *)

\* What the users do in the runs that exercise the store.  Every user types
\* notes and saves the first version; the user of session 1 also toggles the
\* chat panel, browses (empty query) and searches.
StoreClicks(p) == IF p = 1 THEN BOOLEAN ELSE {FALSE}
StoreTriggers(p) == {"none", "save1"}
StoreQueries(p) == IF p = 1 THEN {"", "a"} ELSE {}
StorePicks == {0}
StoreSources == {"Pierwsza wersja notatki"}

\* The sessions' script threads interleave at every call of a collaborator.
Next ==
    \E p \in Sessions :
        \/ RunStart(p, StoreClicks(p))
        \/ KeyGate(p)
        \/ EnsureCheck(p)
        \/ EnsureCreate(p)
        \/ AddTab(p, StoreTriggers(p))
        \/ AddCount(p)
        \/ AddEmbed(p)
        \/ AddUpsert(p)
        \/ SearchTab(p, StoreQueries(p))
        \/ ListScroll(p)
        \/ ListEmbed(p)
        \/ ListSearch(p)
        \/ ShowResults(p, StorePicks, {}, {})
        \/ ChatSetup(p, StoreSources)
        \/ ChatInput(p, {})
        \/ ChatEnd(p, {FALSE})
        \/ RunAbort(p)
        \/ RunStop(p)

Spec == Init /\ [][Next]_vars

\* Calls of the store that have started and not yet returned.
MidCall == {"create", "embed", "upsert", "list_search"}

\* One caller, one operation at a time: a session takes a step only while
\* no other session is inside a call of the store.
Alone(p) == \A q \in Sessions \ {p} : pc[q] \notin MidCall

NextSeq ==
    \E p \in Sessions :
        \/ Alone(p) /\ RunStart(p, StoreClicks(p))
        \/ Alone(p) /\ KeyGate(p)
        \/ Alone(p) /\ EnsureCheck(p)
        \/ Alone(p) /\ EnsureCreate(p)
        \/ Alone(p) /\ AddTab(p, StoreTriggers(p))
        \/ Alone(p) /\ AddCount(p)
        \/ Alone(p) /\ AddEmbed(p)
        \/ Alone(p) /\ AddUpsert(p)
        \/ Alone(p) /\ SearchTab(p, StoreQueries(p))
        \/ Alone(p) /\ ListScroll(p)
        \/ Alone(p) /\ ListEmbed(p)
        \/ Alone(p) /\ ListSearch(p)
        \/ Alone(p) /\ ShowResults(p, StorePicks, {}, {})
        \/ Alone(p) /\ ChatSetup(p, StoreSources)
        \/ Alone(p) /\ ChatInput(p, {})
        \/ Alone(p) /\ ChatEnd(p, {FALSE})
        \/ Alone(p) /\ RunAbort(p)
        \/ Alone(p) /\ RunStop(p)

SpecSeq == Init /\ [][NextSeq]_vars

\* add_note_to_db as one critical section per store: a session reads the
\* count only while no other session is between its count and its upsert.
Locked(p) == \A q \in Sessions \ {p} : pc[q] \notin {"embed", "upsert"}

NextLocked ==
    \E p \in Sessions :
        \/ RunStart(p, StoreClicks(p))
        \/ KeyGate(p)
        \/ EnsureCheck(p)
        \/ EnsureCreate(p)
        \/ AddTab(p, StoreTriggers(p))
        \/ Locked(p) /\ AddCount(p)
        \/ AddEmbed(p)
        \/ AddUpsert(p)
        \/ SearchTab(p, StoreQueries(p))
        \/ ListScroll(p)
        \/ ListEmbed(p)
        \/ ListSearch(p)
        \/ ShowResults(p, StorePicks, {}, {})
        \/ ChatSetup(p, StoreSources)
        \/ ChatInput(p, {})
        \/ ChatEnd(p, {FALSE})
        \/ RunAbort(p)
        \/ RunStop(p)

SpecLocked == Init /\ [][NextLocked]_vars

\* The collection after n adds, one at a time: the ids 1..n, the first k
\* notes with the text "a" and the others with "b", each with the vector of
\* its text.
StoreOf(n, k) ==
    [created |-> TRUE,
     collections |-> {QDRANT_COLLECTION_NAME},
     vectors_config |-> [size |-> EMBEDDING_DIM, distance |-> "Cosine"],
     points |-> [i \in 1..n |->
                    LET text == IF i <= k THEN "a" ELSE "b"
                    IN  [vector |-> EmbeddingOf(text), payload |-> [text |-> text]]]]

\* The process at a later time of its life: every session has got its key
\* from .env and finished its runs, and the collection holds up to MaxStored
\* notes (all "b", half "a" and half "b", or all "a"); added records the
\* upserts from here on.
InitStore ==
    \/ Init
    \/ /\ \E n \in 0..MaxStored : \E k \in {0, n \div 2, n} : qdrant = StoreOf(n, k)
       /\ env = TRUE
       /\ pc = [p \in Sessions |-> "idle"]
       /\ openai_api_key = [p \in Sessions |-> "sk"]
       /\ chat_active = [p \in Sessions |-> FALSE]
       /\ note_text = [p \in Sessions |-> ""]
       /\ note_text_corrected = [p \in Sessions |-> Absent]
       /\ search_results = [p \in Sessions |-> <<>>]
       /\ arg = [p \in Sessions |-> ""]
       /\ points_count = [p \in Sessions |-> 0]
       /\ vector = [p \in Sessions |-> 0]
       /\ exception = [p \in Sessions |-> "none"]
       /\ fault = [p \in Sessions |-> "none"]
       /\ ensured = [p \in Sessions |-> FALSE]
       /\ read_epoch = [p \in Sessions |-> 0]
       /\ calls = [p \in Sessions |-> <<>>]
       /\ added = <<>>
       /\ search_note_text = [p \in Sessions |-> Absent]
       /\ search_note_text_corrected = [p \in Sessions |-> Absent]
       /\ last_selected_note_idx = [p \in Sessions |-> NoIndex]
       /\ chat_history = [p \in Sessions |-> <<>>]
       /\ chat_text_source = [p \in Sessions |-> "note_text"]
       /\ prev_chat_text_source = [p \in Sessions |-> Absent]
       /\ clear_chat_input = [p \in Sessions |-> FALSE]
       /\ chat_user_input = [p \in Sessions |-> ""]
       /\ search_edited = [p \in Sessions |-> FALSE]
       /\ chat_typed = [p \in Sessions |-> FALSE]

\* What the one user of SpecStore does: every button of the add tab and
\* every query of the search tab, with the chat panel left closed.
AllTriggers == {"none", "correct", "translate", "save1", "save2"}
AllQueries == Inputs

\* One session at work on a collection that already holds notes.
NextStore ==
    \E p \in {1} :
        \/ RunStart(p, {FALSE})
        \/ KeyGate(p)
        \/ EnsureCheck(p)
        \/ EnsureCreate(p)
        \/ AddTab(p, AllTriggers)
        \/ AddCount(p)
        \/ AddEmbed(p)
        \/ AddUpsert(p)
        \/ SearchTab(p, AllQueries)
        \/ ListScroll(p)
        \/ ListEmbed(p)
        \/ ListSearch(p)
        \/ ShowResults(p, StorePicks, {}, {})
        \/ RunAbort(p)
        \/ RunStop(p)

SpecStore == InitStore /\ [][NextStore]_vars

\* What the one user of SpecPanel does: every button of the add tab, both
\* positions of the chat switch, every source of the selectbox, questions to
\* the model and the button that clears the conversation; the search tab
\* browses.
PanelQueries == {""}
PanelPicks == {0, 1}
PanelInputs == Questions \cup {""}

\* One session at work with the chat panel.
NextPanel ==
    \E p \in {1} :
        \/ RunStart(p, BOOLEAN)
        \/ KeyGate(p)
        \/ EnsureCheck(p)
        \/ EnsureCreate(p)
        \/ AddTab(p, AllTriggers)
        \/ AddCount(p)
        \/ AddEmbed(p)
        \/ AddUpsert(p)
        \/ SearchTab(p, PanelQueries)
        \/ ListScroll(p)
        \/ ShowResults(p, PanelPicks, {}, {})
        \/ ChatSetup(p, DOMAIN text_sources)
        \/ ChatInput(p, PanelInputs)
        \/ ChatCall(p)
        \/ ChatEnd(p, BOOLEAN)
        \/ RunAbort(p)
        \/ RunStop(p)

SpecPanel == Init /\ [][NextPanel]_vars

\* The most notes the collection of SpecSearch holds.
MaxShown == 2

\* The process with a collection of up to MaxShown notes.
InitSearch ==
    /\ InitStore
    /\ Cardinality(DOMAIN qdrant.points) <= MaxShown

\* What the one user of SpecSearch does: browsing and searching, picking
\* any of the results, typing over the selected text and asking for its
\* correction; nothing is added.
SearchPicks == 0..(MaxShown - 1)
SearchEdits == Texts
SearchCorrections == Texts

\* One session at work in the search tab.
NextSearch ==
    \E p \in {1} :
        \/ RunStart(p, {FALSE})
        \/ KeyGate(p)
        \/ EnsureCheck(p)
        \/ EnsureCreate(p)
        \/ AddTab(p, {"none"})
        \/ SearchTab(p, AllQueries)
        \/ ListScroll(p)
        \/ ListEmbed(p)
        \/ ListSearch(p)
        \/ ShowResults(p, SearchPicks, SearchEdits, SearchCorrections)
        \/ RunAbort(p)
        \/ RunStop(p)

SpecSearch == InitSearch /\ [][NextSearch]_vars

(* ------------------------------ properties ------------------------------ *)

\* Session p's upsert succeeds in this step.
Inserted(p) == pc[p] = "upsert" /\ pc'[p] = "search_tab"

\* The point a running add_note_to_db is about to store.
PointOf(p) == PointStruct(point_id(points_count[p]), vector[p], arg[p])

Stored(point) == [vector |-> point.vector, payload |-> point.payload]

Ready == collection_exists(qdrant)

\* The exact number of records the index holds.
NumRecords == Cardinality(DOMAIN qdrant.points)

\* The last successful add that wrote under id i.
LastAdded(i) ==
    added[CHOOSE k \in 1..Len(added) :
            /\ added[k].id = i
            /\ \A m \in (k + 1)..Len(added) : added[m].id # i]

\* C1: with one operation at a time, a successful add leaves the exact count
\* equal to the count before the call (the one the call read) plus one.
C1_AddGrowsCountByOne ==
    [][\A p \in Sessions :
          Inserted(p) =>
            /\ NumRecords = points_count[p]
            /\ NumRecords' = NumRecords + 1]_vars

\* C1 witness: two adds have succeeded, one after the other, and the index
\* holds two records.
C1_Witness == Len(added) = 2 /\ NumRecords = 2

\* C2: with one operation at a time from an empty index, the k-th successful
\* add stored its note under the id k (the count it read, k - 1, plus one):
\* ids are positive, pairwise distinct, and the stored ids are exactly 1..n
\* for n successful adds, each carrying the text of its add.
C2_IdsAreOneToN ==
    /\ DOMAIN qdrant.points = 1..Len(added)
    /\ \A k \in 1..Len(added) :
          /\ added[k].id = k
          /\ added[k].id > 0
          /\ qdrant.points[k].payload.text = added[k].text
    /\ \A k, m \in 1..Len(added) : added[k].id = added[m].id => k = m
    /\ \A p \in Sessions :
          pc[p] \in {"embed", "upsert"} => PointOf(p).id = Len(added) + 1

\* C2 witness: two notes stored under the ids 1 and 2.
C2_Witness == Len(added) = 2 /\ DOMAIN qdrant.points = {1, 2}

\* C3: two running adds that read the count with no insert between the two
\* reads compute the same id; and an upsert lands on an id that is already
\* stored only when another add inserted between this call's count and its
\* own upsert (the calls overlapped).
C3_SameCountSameId ==
    [][/\ \A p, q \in Sessions :
             (/\ pc'[p] \in {"embed", "upsert"}
              /\ pc'[q] \in {"embed", "upsert"}
              /\ read_epoch'[p] = read_epoch'[q])
             => point_id(points_count'[p]) = point_id(points_count'[q])
       /\ \A p \in Sessions :
             (Inserted(p) /\ PointOf(p).id \in DOMAIN qdrant.points)
             => read_epoch[p] < Len(added)]_vars

\* C3 witness: two sessions are inside add_note_to_db, both past the count
\* and before the upsert, holding the same id.
C3_Witness ==
    \E p, q \in Sessions :
        /\ p # q
        /\ pc[p] = "upsert"
        /\ pc[q] = "upsert"
        /\ PointOf(p).id = PointOf(q).id

\* C4: an upsert under an id that an overlapping add already stored
\* overwrites that record: the id then carries the later writer's text and
\* vector, every other record is as before, the count does not grow (the two
\* calls together added one record), and every record carries the text of
\* the last add under its id, so the overwritten note is held by no record.
C4_LaterUpsertOverwrites ==
    [][\A p \in Sessions :
          (Inserted(p) /\ PointOf(p).id \in DOMAIN qdrant.points) =>
            /\ qdrant'.points[PointOf(p).id] = Stored(PointOf(p))
            /\ qdrant'.points[PointOf(p).id].payload.text = arg[p]
            /\ DOMAIN qdrant'.points = DOMAIN qdrant.points
            /\ \A i \in DOMAIN qdrant.points \ {PointOf(p).id} :
                  qdrant'.points[i] = qdrant.points[i]
            /\ NumRecords' = NumRecords
            /\ NumRecords' < Len(added')
            /\ \A i \in DOMAIN qdrant'.points :
                  qdrant'.points[i].payload.text = LastAdded(i).text']_vars

\* C4 witness: the adds of "a" and then "b" both returned, both under id 1;
\* the index holds one record, with "b", and "a" is stored nowhere.
C4_Witness ==
    /\ added = <<[id |-> 1, text |-> "a"], [id |-> 1, text |-> "b"]>>
    /\ NumRecords = 1
    /\ qdrant.points[1].payload.text = "b"
    /\ \A i \in DOMAIN qdrant.points : qdrant.points[i].payload.text # "a"
    /\ \A p \in Sessions : pc[p] \notin {"count", "embed", "upsert"}

\* C5: with count and upsert as one critical section, whatever the
\* interleaving of the sessions, the ids of the successful adds are pairwise
\* distinct and the count is the initial count (0) plus their number.
C5_LockedIdsDistinct ==
    /\ \A k, m \in 1..Len(added) : added[k].id = added[m].id => k = m
    /\ NumRecords = Len(added)
    /\ DOMAIN qdrant.points = {added[k].id : k \in 1..Len(added)}

\* C5 witness: one session's add has returned and its run is still going;
\* another session entered the critical section after it, read the count 1
\* and is about to insert.
C5_Witness ==
    \E p, q \in Sessions :
        /\ p # q
        /\ pc[p] = "search_tab"
        /\ pc[q] = "upsert"
        /\ Len(added) = 1
        /\ points_count[q] = 1

\* C6: under any sequence of ensureIndex, add, list and search calls, a
\* stored record stays stored under its id with its text and vector, and
\* the records change only by the insert of an add.
C6_NotesImmutable ==
    [][/\ \A i \in DOMAIN qdrant.points :
             /\ i \in DOMAIN qdrant'.points
             /\ qdrant'.points[i] = qdrant.points[i]
       /\ qdrant'.points # qdrant.points => \E p \in Sessions : Inserted(p)]_vars

\* C6 witness: a browse or search returned while the index held one note,
\* a second add followed, and the first note is still stored as it was added.
C6_Witness ==
    /\ NumRecords = 2
    /\ Len(search_results[1]) = 1
    /\ qdrant.points[1].payload.text = added[1].text

\* C7: every step of an add leaves the records as they are, except the
\* successful upsert, which stores exactly the one point of the call; when
\* the embedding provider or the upsert fails, the exception ends the run
\* (it reaches the caller) with the index and the records untouched; and a
\* call stores its point only if no collaborator failed in it.
C7_AddAllOrNothing ==
    [][\A p \in Sessions :
          /\ (pc[p] \in {"count", "embed", "upsert"} /\ pc'[p] # pc[p]) =>
                IF Inserted(p)
                THEN /\ DOMAIN qdrant'.points = DOMAIN qdrant.points \cup {PointOf(p).id}
                     /\ qdrant'.points[PointOf(p).id] = Stored(PointOf(p))
                     /\ \A i \in DOMAIN qdrant.points \ {PointOf(p).id} :
                           qdrant'.points[i] = qdrant.points[i]
                     /\ fault[p] = "none"
                     /\ vector[p] = EmbeddingOf(arg[p])
                ELSE qdrant' = qdrant
          /\ (fault[p] = "none" /\ fault'[p] \in {"add_embedding", "upsert"}) =>
                /\ pc'[p] = "raised"
                /\ exception'[p] # "none"
                /\ qdrant' = qdrant
                /\ added' = added]_vars

\* C7 witness: the provider failed in one add and the upsert in another,
\* after one note was stored; the index holds that one note.
C7_Witness ==
    \E p, q \in Sessions :
        /\ fault[p] = "add_embedding"
        /\ fault[q] = "upsert"
        /\ pc[p] = "raised"
        /\ pc[q] = "raised"
        /\ Len(added) = 1
        /\ NumRecords = 1

\* C8: with one operation at a time, an ensureIndex that finds the index
\* does not create and changes nothing (configuration and records), and no
\* ensureIndex call raises.
C8_EnsureIdempotent ==
    [][\A p \in Sessions :
          /\ (pc[p] = "ensure" /\ pc'[p] # "ensure" /\ Ready) =>
                /\ pc'[p] = "add_tab"
                /\ qdrant' = qdrant
          /\ (pc[p] \in {"ensure", "create"} /\ pc'[p] # pc[p]) =>
                /\ exception'[p] = "none"
                /\ fault'[p] = "none"]_vars

\* C8 witness: an ensureIndex call has returned on an index that existed
\* and held a note; dimension and metric are as created.
C8_Witness ==
    \E p \in Sessions :
        /\ pc[p] = "add_tab"
        /\ ensured[p]
        /\ NumRecords >= 1
        /\ qdrant.vectors_config = [size |-> EMBEDDING_DIM, distance |-> "Cosine"]

\* C9: the index is Absent or Ready; it becomes Ready only by the create of
\* ensureIndex, configured with the dimension and the cosine metric, and
\* once Ready it stays Ready.
C9_AbsentThenReady ==
    [][/\ qdrant'.collections \in {{}, {QDRANT_COLLECTION_NAME}}
       /\ Ready => Ready'
       /\ (~Ready /\ Ready') =>
             \E p \in Sessions : pc[p] = "create" /\ pc'[p] = "add_tab"
       /\ Ready' => qdrant'.vectors_config =
                       [size |-> EMBEDDING_DIM, distance |-> "Cosine"]]_vars

\* C9 witness: the index is Ready after two adds, a browse or search and a
\* failed call.
C9_Witness ==
    /\ Ready
    /\ Len(added) = 2
    /\ search_results[1] # <<>>
    /\ \E p \in Sessions : fault[p] # "none" /\ pc[p] = "raised"

\* C10: a session is inside add_note_to_db or list_notes_from_db, or past
\* them, only after assure_db_collection_exists returned in the same run,
\* with the index Ready; no count, scroll or search ever finds it Absent.
C10_EnsuredBeforeStoreCalls ==
    \A p \in Sessions :
        /\ pc[p] \in {"add_tab", "count", "embed", "upsert", "search_tab",
                      "list", "list_search", "show"} => ensured[p] /\ Ready
        /\ fault[p] \notin {"count", "scroll", "search"}

\* C10 witness: a session in the chat-active branch is inside
\* list_notes_from_db while one in the chat-inactive branch is inside
\* add_note_to_db.
C10_Witness ==
    \E p, q \in Sessions :
        /\ chat_active[p]
        /\ pc[p] = "list_search"
        /\ ~chat_active[q]
        /\ pc[q] = "upsert"

\* list_notes_from_db returns from its browse-all branch in this step.
ListReturned(p) == pc[p] = "list" /\ pc'[p] = "show"

\* list_notes_from_db returns from its search branch in this step.
SearchReturned(p) == pc[p] = "list_search" /\ pc'[p] = "show"

Min(m, n) == IF m < n THEN m ELSE n

\* C11: the result of a search with a non-empty query is the index's
\* nearest-neighbour answer, item for item in the same order (nothing
\* reordered, dropped or added), and its scores never increase along the
\* sequence.
C11_SearchKeepsIndexOrder ==
    [][\A p \in Sessions :
          SearchReturned(p) =>
            LET answer == search(qdrant, vector[p], SearchLimit)
                result == search_results'[p]
            IN  /\ Len(result) = Len(answer)
                /\ \A k \in 1..Len(answer) :
                      /\ result[k].text = answer[k].payload.text
                      /\ result[k].score = answer[k].score
                /\ \A k \in 1..(Len(result) - 1) :
                      result[k].score >= result[k + 1].score]_vars

\* C11 witness: a search for "b" over twelve notes returned ten results, the
\* best match first and a weaker match last, although the weaker matches
\* have the lower ids.
C11_Witness ==
    /\ pc[1] = "show"
    /\ Len(calls[1]) = 2
    /\ calls[1][2].fn = "search"
    /\ NumRecords = 12
    /\ Len(search_results[1]) = SearchLimit
    /\ search_results[1][1] = [text |-> "b", score |-> 100]
    /\ search_results[1][SearchLimit] = [text |-> "a", score |-> 40]
    /\ qdrant.points[1].payload.text = "a"

\* C12: with N stored notes the browse-all list returns exactly min(N, 12)
\* results (12 for N = 20) and a search returns min(N, 10), so at most 10.
C12_LimitsRespected ==
    [][\A p \in Sessions :
          /\ ListReturned(p) =>
                Len(search_results'[p]) = Min(NumRecords, ScrollLimit)
          /\ SearchReturned(p) =>
                /\ Len(search_results'[p]) <= SearchLimit
                /\ Len(search_results'[p]) = Min(NumRecords, SearchLimit)]_vars

\* C12 witness: the browse-all list over twenty stored notes returned twelve.
C12_Witness ==
    /\ NumRecords = 20
    /\ pc[1] = "show"
    /\ calls[1] = <<Call("scroll", "", ScrollLimit)>>
    /\ Len(search_results[1]) = 12

\* The browse-all result of this step lists the note saved by the k-th
\* successful add, without a score.
Lists(p, k) ==
    \E j \in 1..Len(search_results'[p]) :
        search_results'[p][j] = [text |-> added[k].text, score |-> NoScore]

\* C13 as claimed: every browse-all list that follows a successful add(t)
\* contains an entry with the text t and the score None.
C13_AddedNoteIsListed ==
    [][\A p \in Sessions :
          ListReturned(p) => \A k \in 1..Len(added) : Lists(p, k)]_vars

\* C13 as amended: with one operation at a time, a browse-all list that
\* follows a successful add(t) contains an entry with the text t and the
\* score None whenever the collection holds at most 12 notes, the limit of
\* the scroll.
C13_AddedNoteIsListedWithinLimit ==
    [][\A p \in Sessions :
          (ListReturned(p) /\ NumRecords <= ScrollLimit)
          => \A k \in 1..Len(added) : Lists(p, k)]_vars

\* C13 witness: the note "b" was added as the twelfth note after eleven
\* notes "a", and the browse-all list that followed returned it, last and
\* without a score.
C13_Witness ==
    /\ pc[1] = "show"
    /\ calls[1] = <<Call("scroll", "", ScrollLimit)>>
    /\ added = <<[id |-> 12, text |-> "b"]>>
    /\ NumRecords = 12
    /\ qdrant.points[1].payload.text = "a"
    /\ search_results[1][12] = [text |-> "b", score |-> NoScore]

\* C14: every item of a browse-all result has the score None; every item of
\* a search result carries the text stored under the record the index
\* answered with and the similarity of that record's vector to the query
\* vector, which is never None.
C14_ScoreNoneOrIndexScore ==
    [][\A p \in Sessions :
          /\ ListReturned(p) =>
                \A k \in 1..Len(search_results'[p]) :
                    search_results'[p][k].score = NoScore
          /\ SearchReturned(p) =>
                LET answer == search(qdrant, vector[p], SearchLimit)
                IN  \A k \in 1..Len(search_results'[p]) :
                        LET note == qdrant.points[answer[k].id]
                            item == search_results'[p][k]
                        IN  /\ item.text = note.payload.text
                            /\ item.score = Cosine(note.vector, vector[p])
                            /\ item.score # NoScore]_vars

\* C14 witness: a search for "a" over the notes "b" (id 1) and "a" (id 2)
\* returned "a" with the score of an equal vector and "b" with a lower one.
C14_Witness ==
    /\ pc[1] = "show"
    /\ Len(calls[1]) = 2
    /\ calls[1][1] = Call("get_embedding", "a", 0)
    /\ calls[1][2].fn = "search"
    /\ NumRecords = 2
    /\ qdrant.points[1].payload.text = "b"
    /\ search_results[1] = <<[text |-> "a", score |-> 100], [text |-> "b", score |-> 40]>>

\* C15: a search with a non-empty query on the created, empty collection
\* returns the empty sequence and raises nothing; the only other outcome of
\* the step is a failure of the index query itself, which emptiness does not
\* cause.
C15_EmptyStoreSearch ==
    [][\A p \in Sessions :
          (pc[p] = "list_search" /\ pc'[p] # pc[p] /\ Ready /\ NumRecords = 0)
          => \/ /\ pc'[p] = "show"
                /\ search_results'[p] = <<>>
                /\ exception'[p] = "none"
                /\ fault'[p] = "none"
             \/ fault'[p] = "search_query"]_vars

\* C15 witness: the collection was created in this behaviour and holds no
\* note; a search for "a" has returned, with no result and no exception.
C15_Witness ==
    /\ Ready
    /\ NumRecords = 0
    /\ openai_api_key[2] = ""
    /\ pc[1] = "show"
    /\ calls[1] = <<Call("get_embedding", "a", 0), Call("search", "", SearchLimit)>>
    /\ search_results[1] = <<>>
    /\ exception[1] = "none"

\* The exception each collaborator of list_notes_from_db raises.
RaisedBy(who) ==
    CASE who = "list_embedding" -> "OpenAIError"
      [] who = "scroll_query"   -> "ScrollError"
      [] who = "search_query"   -> "SearchError"
      [] OTHER                  -> "none"

\* C16: a list or search either returns the complete answer of the index
\* (every record the scroll or search answered, none dropped) or fails: a
\* failure of the embedding provider or of the index query leaves the call
\* as the collaborator's own exception in the same step, the caller stores
\* no result, and no collaborator is called twice in one call.
C16_ListAllOrNothing ==
    [][\A p \in Sessions :
          /\ (pc[p] \in {"list", "list_search"} /\ pc'[p] # pc[p]) =>
                /\ \A i, j \in 1..Len(calls'[p]) :
                      calls'[p][i].fn = calls'[p][j].fn => i = j
                /\ \/ /\ ListReturned(p)
                      /\ Len(search_results'[p]) = Len(scroll(qdrant, ScrollLimit))
                      /\ fault'[p] = "none"
                   \/ /\ SearchReturned(p)
                      /\ Len(search_results'[p])
                            = Len(search(qdrant, vector[p], SearchLimit))
                      /\ fault'[p] = "none"
                   \/ /\ pc[p] = "list"
                      /\ pc'[p] = "list_search"
                      /\ fault'[p] = "none"
                      /\ search_results'[p] = search_results[p]
                   \/ /\ pc'[p] = "raised"
                      /\ fault'[p] \in {"list_embedding", "scroll_query", "search_query"}
                      /\ exception'[p] = RaisedBy(fault'[p])
                      /\ search_results'[p] = search_results[p]
          /\ (fault[p] = "none" /\ fault'[p] # "none") => pc'[p] = "raised"]_vars

\* C16 witness: after a browse-all list that returned a note, a search
\* failed in the index query; the provider and the index were called once
\* each and the earlier result is still what the session holds.
C16_Witness ==
    /\ pc[1] = "raised"
    /\ fault[1] = "search_query"
    /\ exception[1] = "SearchError"
    /\ calls[1] = <<Call("get_embedding", "a", 0), Call("search", "", SearchLimit)>>
    /\ Len(search_results[1]) = 1
    /\ search_results[1][1].score = NoScore

\* The step is the first of a store call whose text argument is empty.
EmptyTextCall(p) ==
    /\ pc[p] \in {"count", "list"}
    /\ arg[p] = ""
    /\ pc'[p] # pc[p]

\* C17 as claimed: an add or a search that gets an empty text is rejected at
\* once with a validation error, before any collaborator is called and with
\* the records as they were.
C17_EmptyTextRejected ==
    [][\A p \in Sessions :
          EmptyTextCall(p) =>
            /\ pc'[p] = "raised"
            /\ exception'[p] = "ValidationError"
            /\ calls'[p] = <<>>
            /\ qdrant' = qdrant]_vars

\* C17 as amended: no validation error exists.  add_note_to_db is never
\* called with an empty text, because a save button exists only for a
\* non-empty text; an empty query is not rejected but answered by the
\* browse-all branch, which calls scroll once, calls no other collaborator
\* and leaves the records as they were.
C17_EmptyTextNeverAddedEmptyQueryBrowses ==
    [][\A p \in Sessions :
          /\ pc'[p] \in {"count", "embed", "upsert"} => arg'[p] \notin {"", Absent}
          /\ exception'[p] # "ValidationError"
          /\ EmptyTextCall(p) =>
                /\ pc[p] = "list"
                /\ calls'[p] = <<Call("scroll", "", ScrollLimit)>>
                /\ qdrant' = qdrant
                /\ \/ /\ pc'[p] = "show"
                      /\ Len(search_results'[p]) = Min(NumRecords, ScrollLimit)
                   \/ fault'[p] = "scroll_query"]_vars

\* C17 witness: in a run with an empty note and an empty corrected note
\* nothing was saved, and the empty query returned the three stored notes.
C17_Witness ==
    /\ pc[1] = "show"
    /\ note_text[1] = ""
    /\ note_text_corrected[1] = ""
    /\ added = <<>>
    /\ NumRecords = 3
    /\ calls[1] = <<Call("scroll", "", ScrollLimit)>>
    /\ Len(search_results[1]) = 3

C19_BrowseOrSearchPath ==
    [][\A p \in Sessions :
          /\ (pc[p] = "list" /\ pc'[p] # pc[p]) =>
                IF arg[p] \in {None, ""}
                THEN calls'[p] = <<Call("scroll", "", 12)>>
                ELSE calls'[p] = <<Call("get_embedding", arg[p], 0)>>
          /\ ListReturned(p) =>
                /\ arg[p] \in {None, ""}
                /\ \A k \in 1..Len(search_results'[p]) :
                      search_results'[p][k].score = NoScore
          /\ (pc[p] = "list_search" /\ pc'[p] # pc[p]) =>
                /\ arg[p] \notin {None, ""}
                /\ calls'[p] = <<Call("get_embedding", arg[p], 0),
                                 Call("search", "", 10)>>]_vars

\* C19 witness: a search for "b" over twenty notes called the provider once
\* and the search once and returned ten scored items.
C19_Witness ==
    /\ pc[1] = "show"
    /\ NumRecords = 20
    /\ calls[1] = <<Call("get_embedding", "b", 0), Call("search", "", 10)>>
    /\ Len(search_results[1]) = 10
    /\ \A k \in 1..10 : search_results[1][k].score # NoScore

\* C20: no step of a list_notes_from_db call, returning or raising, changes
\* the client, its collection, the stored records (id, text, vector) or
\* their number, whatever the other sessions are in the middle of.
C20_ListLeavesIndexUnchanged ==
    [][\A p \in Sessions :
          (pc[p] \in {"list", "list_search"} /\ pc'[p] # pc[p]) =>
            /\ qdrant' = qdrant
            /\ DOMAIN qdrant'.points = DOMAIN qdrant.points
            /\ \A i \in DOMAIN qdrant.points : qdrant'.points[i] = qdrant.points[i]
            /\ NumRecords' = NumRecords
            /\ added' = added]_vars

\* C20 witness: a search failed at the provider while another session was
\* about to upsert its note; the one stored note is as it was added.
C20_Witness ==
    /\ pc[1] = "raised"
    /\ fault[1] = "list_embedding"
    /\ pc[2] = "upsert"
    /\ added = <<[id |-> 1, text |-> "b"]>>
    /\ NumRecords = 1
    /\ qdrant.points[1] = [vector |-> EmbeddingOf("b"), payload |-> [text |-> "b"]]


(* ------------------ concurrency and the page (C21..C28) ---------------- *)

\* C21: assure_db_collection_exists is a check followed by a create, two
\* steps on the client all sessions share.  The check changes no collection:
\* a session that finds the collection absent goes on to create_collection
\* with the collection still absent, so a second session can make the same
\* observation before the first one creates; each of them then issues
\* create_collection for QDRANT_COLLECTION_NAME, the earlier one creates it
\* and the later one is refused with ValueError.
C21_CheckThenCreateNotAtomic ==
    [][\A p \in Sessions :
          /\ (pc[p] = "ensure" /\ pc'[p] # "ensure") =>
                /\ qdrant'.collections = qdrant.collections
                /\ (pc'[p] = "create") <=> ~collection_exists(qdrant)
          /\ (pc[p] = "create" /\ pc'[p] # "create") =>
                IF collection_exists(qdrant)
                THEN /\ pc'[p] = "raised"
                     /\ exception'[p] = "ValueError"
                     /\ fault'[p] = "create_collection"
                     /\ qdrant' = qdrant
                ELSE /\ collection_exists(qdrant')
                     /\ pc'[p] = "add_tab"]_vars

\* Two sessions both found the collection absent and both issued create: one
\* of them is in create_collection's ValueError, the other created.
C21_Witness ==
    \E p, q \in Sessions :
        /\ p # q
        /\ pc[p] = "raised"
        /\ fault[p] = "create_collection"
        /\ ensured[q]
        /\ collection_exists(qdrant)

\* C22: the key gate.  A run whose session still has no openai_api_key after
\* the key input stops there (st.stop()): it changes nothing and calls no
\* collaborator.  A session stands in assure_db_collection_exists, in
\* add_note_to_db, in list_notes_from_db, in the tabs or in an exception of
\* theirs, and has called a collaborator in this run, only with a non-empty
\* key.
C22_NoKeyNoOperation ==
    [][\A p \in Sessions :
          /\ (pc[p] = "gate" /\ pc'[p] # "gate" /\ openai_api_key'[p] = "") =>
                pc'[p] = "stopped"
          /\ pc[p] = "stopped" =>
                /\ pc'[p] \in {"stopped", "idle"}
                /\ pc'[p] = "idle" => qdrant' = qdrant
                /\ calls'[p] = <<>>
                /\ openai_api_key'[p] = ""
          /\ pc'[p] \notin {"idle", "gate", "stopped"} => openai_api_key'[p] # ""
          /\ calls'[p] # <<>> => openai_api_key'[p] # ""]_vars

\* A session without a key was stopped at the gate while another session,
\* which has its key, is inside add_note_to_db.
C22_Witness ==
    \E p, q \in Sessions :
        /\ pc[p] = "stopped"
        /\ openai_api_key[p] = ""
        /\ pc[q] = "upsert"
        /\ openai_api_key[q] # ""

\* C23: the save handlers of the add tab never call add_note_to_db with an
\* empty text, with the chat panel open or closed: the call starts with the
\* first version only when note_text is not empty, and with the second
\* version only when note_text_corrected is set and not empty; the text of
\* the call stays that text up to the upsert.
C23_SaveHandlersPassNonEmptyText ==
    [][\A p \in Sessions :
          /\ (pc[p] = "add_tab" /\ pc'[p] = "count") =>
                /\ arg'[p] \notin {"", Absent}
                /\ \/ arg'[p] = note_text'[p]
                   \/ arg'[p] = note_text_corrected'[p]
          /\ (pc[p] \in {"count", "embed"} /\ pc'[p] \in {"embed", "upsert"}) =>
                /\ arg'[p] = arg[p]
                /\ arg'[p] # ""]_vars

\* With the chat panel open, the second save button started add_note_to_db
\* with the corrected text, which differs from the first version.
C23_Witness ==
    \E p \in Sessions :
        /\ chat_active[p]
        /\ pc[p] = "count"
        /\ arg[p] = note_text_corrected[p]
        /\ arg[p] # note_text[p]

\* The run of session p has taken a question from the input field.
InputProcessed(p) ==
    \/ pc[p] = "chat_call"
    \/ /\ pc[p] = "chat_end"
       /\ calls[p] # <<>>
       /\ calls[p][Len(calls[p])].fn = "chat.completions.create"

\* The text of the source selected in the chat panel of session p.
SelectedText(p) == session_get(p, text_sources[chat_text_source[p]])

\* C24: whatever the user does in the chat panel (changing the source,
\* asking, clearing the conversation), the history holds a system message
\* at most at its head, never further down; and once a run has taken a
\* question, the head of the history is the system message built from the
\* current text of the selected source.
C24_OneSystemMessageAtHead ==
    \A p \in Sessions :
        /\ \A k \in 2..Len(chat_history[p]) : chat_history[p][k].role # "system"
        /\ InputProcessed(p) =>
              /\ chat_history[p] # <<>>
              /\ chat_history[p][1] = SystemMessage(SelectedText(p))

\* In a conversation about the second version of the note the second
\* question is on its way to the model: the head of the history is the
\* system message of the corrected text, which differs from the first
\* version, and the three messages below it hold no system message.
C24_Witness ==
    \E p \in Sessions :
        /\ pc[p] = "chat_call"
        /\ Len(chat_history[p]) = 4
        /\ text_sources[chat_text_source[p]] = "note_text_corrected"
        /\ note_text_corrected[p] = "b"
        /\ note_text[p] = "a"
        /\ chat_history[p][1] = SystemMessage("b")

\* The conversation: the history without its system message.
Conversation(history) ==
    IF history # <<>> /\ history[1].role = "system" THEN Tail(history) ELSE history

\* user, assistant, user, assistant, ...
Alternates(messages) ==
    \A k \in 1..Len(messages) :
        messages[k].role = IF k % 2 = 1 THEN "user" ELSE "assistant"

\* C25: a user message is answered in the run that appended it.  The call
\* of the model ends with exactly one assistant message appended, the
\* model's answer or the error text of the exception, and the exception
\* does not leave the script; so below the system message the history
\* alternates user, assistant, and outside the call it ends with an
\* assistant message.
C25_EveryQuestionAnswered ==
    [][\A p \in Sessions :
          /\ (pc[p] = "chat_call" /\ pc'[p] # "chat_call") =>
                /\ pc'[p] = "chat_end"
                /\ exception'[p] = "none"
                /\ \E answer \in Answers \cup {ErrorAnswer("OpenAIError")} :
                      chat_history'[p] =
                          Append(chat_history[p], AssistantMessage(answer))
          /\ (pc[p] # "chat_input" /\ pc'[p] = "chat_call") => pc[p] = "chat_call"
          /\ Alternates(Conversation(chat_history'[p]))
          /\ Len(Conversation(chat_history'[p])) % 2 =
                IF pc'[p] = "chat_call" THEN 1 ELSE 0]_vars

\* The second question of a conversation got the error text for an answer
\* and the run went on to its end.
C25_Witness ==
    \E p \in Sessions :
        /\ pc[p] = "chat_end"
        /\ Len(chat_history[p]) = 5
        /\ chat_history[p][5] = AssistantMessage(ErrorAnswer("OpenAIError"))
        /\ chat_history[p][3] = AssistantMessage("r")
        /\ exception[p] = "none"

\* C26: the source change.  When the top of the chat column finds a selected
\* source other than the recorded one, the history becomes empty if the
\* text of the new source is empty and otherwise the single system message
\* of that text, and the new source is recorded; when the source is the
\* recorded one (or none was recorded yet) every message of the history
\* stays in its place.
C26_SourceChangeResetsHistory ==
    [][\A p \in Sessions :
          (pc[p] = "chat" /\ pc'[p] = "chat_input") =>
              LET source == chat_text_source'[p]
                  text_for_chat == session_get(p, text_sources[source])
              IN  /\ prev_chat_text_source'[p] = source
                  /\ IF prev_chat_text_source[p] \notin {Absent, source}
                     THEN chat_history'[p] =
                              IF text_for_chat = "" THEN <<>>
                              ELSE <<SystemMessage(text_for_chat)>>
                     ELSE /\ Len(chat_history'[p]) >= Len(chat_history[p])
                          /\ \A k \in 1..Len(chat_history[p]) :
                                chat_history'[p][k] = chat_history[p][k]]_vars

\* The run after an answered question selected the second version as the
\* source: the conversation is gone and the history is the system message
\* of the corrected text.
C26_Witness ==
    \E p \in Sessions :
        /\ pc[p] = "chat_input"
        /\ chat_user_input[p] = "q"
        /\ clear_chat_input[p]
        /\ text_sources[chat_text_source[p]] = "note_text_corrected"
        /\ note_text_corrected[p] = "b"
        /\ chat_history[p] = <<SystemMessage("b")>>

\* C27: a question is not sent twice.  The run that takes a question from
\* the input field sends it in one call of the model and sets
\* clear_chat_input; the next pass through the input field finds the flag,
\* empties the field before the widget is read, resets the flag and takes no
\* question; so every question that is appended to the history and sent was
\* typed for the run that sends it, never left over from an earlier run.
C27_QuestionNotSentAgain ==
    [][\A p \in Sessions :
          /\ (pc[p] = "chat_input" /\ pc'[p] = "chat_call") =>
                /\ chat_typed'[p]
                /\ ~clear_chat_input[p]
                /\ chat_history'[p][Len(chat_history'[p])] =
                       UserMessage(chat_user_input'[p])
          /\ (pc[p] = "chat_call" /\ pc'[p] # "chat_call") =>
                /\ clear_chat_input'[p]
                /\ calls'[p] = Append(calls[p],
                       Call("chat.completions.create", chat_user_input[p], 1024))
          /\ (pc[p] = "chat_input" /\ pc'[p] # "chat_input" /\ clear_chat_input[p]) =>
                /\ chat_user_input'[p] = ""
                /\ ~clear_chat_input'[p]
                /\ chat_history'[p] = chat_history[p]
                /\ pc'[p] = "chat_end"]_vars

\* A later run, in which nothing was typed, has passed the input field: the
\* field is empty, the flag is reset, the one question of the history has
\* its one answer and no call of the model was made in this run.
C27_Witness ==
    \E p \in Sessions :
        /\ pc[p] = "chat_end"
        /\ ~chat_typed[p]
        /\ chat_user_input[p] = ""
        /\ ~clear_chat_input[p]
        /\ Len(chat_history[p]) = 3
        /\ chat_history[p][2] = UserMessage("q")
        /\ calls[p] = <<>>

\* C28: in the search tab, once the selection part has run for a selected
\* result that the user has not changed (by typing over its text or asking
\* for its correction) since it was loaded, search_note_text is the
\* text of the selected entry of the results on display and
\* search_note_text_corrected is empty, after a change of the selected
\* index and after a new search that leaves the selected index where it was.
C28_SelectedTextIsShown ==
    [][\A p \in Sessions :
          (/\ pc[p] = "show"
           /\ pc'[p] \notin {"show", "raised"}
           /\ search_results[p] # <<>>
           /\ ~search_edited'[p]) =>
              /\ search_note_text'[p] =
                     search_results[p][last_selected_note_idx'[p] + 1].text
              /\ search_note_text_corrected'[p] = ""]_vars

====
